---- MODULE Spec2Model ----
(***************************************************************************)
(* Model of bootstrap-icon-renderer (src/src/main.rs): main, the batch     *)
(* driver svg2png and the per-item pipeline svg2png1.                      *)
(*                                                                         *)
(* File names are sequences of one-character strings.  A pixmap is         *)
(* observed at the canvas positions of CanvasPos; a pixel is a             *)
(* premultiplied <<r, g, b, a>> of 8-bit channels.  A parsed scene is the  *)
(* image the rasterizer produces for it in render-region coordinates       *)
(* (after the fit to the render size, before the translate by margin);     *)
(* it may have content outside the view box: the render target handed to   *)
(* resvg::render is the whole canvas-sized pixmap (main.rs:99,117).        *)
(***************************************************************************)
EXTENDS Integers, Sequences, FiniteSets

VARIABLES
    pc,           \* position in main / svg2png / svg2png1
    margin,       \* let margin (main.rs:91)
    size,         \* let size (main.rs:92)
    dir,          \* the input directory, in enumeration order
    snapshot,     \* the directory as fs::read_dir saw it (history)
    enumerated,   \* TRUE once fs::read_dir has completed
    inputs,       \* let inputs (main.rs:53): indices of dir that were collected
    i,            \* position of the for loop in inputs (main.rs:57)
    opath,        \* let opath (main.rs:58)
    tree,         \* let tree (main.rs:85)
    pixmap_size,  \* main.rs:93
    render_size,  \* main.rs:94
    pixmap,       \* main.rs:99
    bgpixmap,     \* main.rs:100
    c,            \* the background colour as filled (main.rs:108-110)
    res,          \* the Result svg2png1 is returning
    outdir,       \* the output directory: set of [path, image]
    before,       \* outdir when svg2png1 was entered (history)
    stderr,       \* the diagnostic stream
    passed,       \* entries passed to svg2png1, in order (history)
    results       \* what svg2png1 returned for each of them (history)

vars == <<pc, margin, size, dir, snapshot, enumerated, inputs, i, opath, tree,
          pixmap_size, render_size, pixmap, bgpixmap, c, res, outdir, before,
          stderr, passed, results>>

----------------------------------------------------------------------------
(* Bounds of the model *)

MaxEntries == 2
NumHues == 3
MaxMargin == 140

----------------------------------------------------------------------------
(* Arithmetic *)

Min(a, b) == IF a < b THEN a ELSE b

\* a u32 as <<high, low>> 16-bit halves
Half == 256 * 256

u32(n) == <<n \div Half, n % Half>>

u32_value(a) == a[1] * Half + a[2]

\* a * k in u32, for a small factor k: the exact product's halves, before wrapping
mul_halves(a, k) == <<a[1] * k + (a[2] * k) \div Half, (a[2] * k) % Half>>

mul_overflows(a, k) == mul_halves(a, k)[1] >= Half

wrapping_mul(a, k) == <<mul_halves(a, k)[1] % Half, mul_halves(a, k)[2]>>

sub_overflows(a, b) == a[1] < b[1] \/ (a[1] = b[1] /\ a[2] < b[2])

wrapping_sub(a, b) ==
    LET borrow == IF a[2] < b[2] THEN 1 ELSE 0
    IN  <<(a[1] - b[1] - borrow + Half) % Half, (a[2] - b[2] + Half) % Half>>

Abs(x) == IF x < 0 THEN -x ELSE x

----------------------------------------------------------------------------
(* Paths *)

InvalidByte == "xFF"   \* a byte that is not valid Unicode

NameASvg == <<"a", ".", "s", "v", "g">>
NameATxt == <<"a", ".", "t", "x", "t">>
NameBSvg == <<"b", ".", "s", "v", "g">>
NameBad  == <<InvalidByte, ".", "s", "v", "g">>
NameNew  == <<"n", ".", "s", "v", "g">>

Names == {NameASvg, NameATxt, NameBSvg, NameBad}

NoPath == << >>

Dots(name) == {k \in 1..Len(name) : name[k] = "."}

LastDot(name) ==
    IF Dots(name) = {} THEN 0
    ELSE CHOOSE k \in Dots(name) : \A j \in Dots(name) : j <= k

\* Path::file_stem: None without a file name
has_file_stem(name) == name # NoPath

\* Path::file_stem: the whole name without an embedded '.', else the part
\* before the final '.'
file_stem(name) ==
    IF LastDot(name) <= 1 THEN name ELSE SubSeq(name, 1, LastDot(name) - 1)

\* OsString::into_string succeeds on valid Unicode only
into_string_ok(os) == \A k \in 1..Len(os) : os[k] # InvalidByte

\* output.join(format!("{}.png", stem)), relative to the output directory
derive_opath(name) == file_stem(name) \o <<".", "p", "n", "g">>

----------------------------------------------------------------------------
(* Pixels and pixmaps *)

CanvasPos == {<<0, 0>>, <<31, 32>>, <<32, 32>>, <<223, 223>>, <<224, 100>>}

Transparent == <<0, 0, 0, 0>>

Palette == {Transparent, <<10, 200, 30, 255>>, <<255, 255, 255, 255>>,
            <<64, 0, 100, 128>>}

NoPixmap == [w |-> 0, h |-> 0, px |-> << >>]

\* tiny_skia::Pixmap::new: a zeroed (transparent) pixmap
Pixmap_new(w, h) ==
    [w |-> u32_value(w), h |-> u32_value(h),
     px |-> [q \in CanvasPos |-> Transparent]]

\* Pixmap::fill
fill(pm, col) == [pm EXCEPT !.px = [q \in CanvasPos |-> col]]

\* one channel of source-over: s + d * (1 - sa), on 8-bit channels stored
\* after rounding to nearest
source_over_channel(s, d, sa) ==
    Min(255, (255 * s + d * (255 - sa) + 127) \div 255)

\* BlendMode::Source in place of SourceOver
source_channel(s, d, sa) == s

blend_channel(s, d, sa) == source_over_channel(s, d, sa)

blend(s, d) == [k \in 1..4 |-> blend_channel(s[k], d[k], s[4])]

InPixmap(pm, q) == q[1] >= 0 /\ q[1] < pm.w /\ q[2] >= 0 /\ q[2] < pm.h

\* draw_pixmap with the offset doubled: the layer drawn at (margin, margin)
draw_pixmap_shifted(dst, x, y, src) ==
    [dst EXCEPT !.px = [q \in CanvasPos |->
        LET p == <<q[1] - x - 32, q[2] - y - 32>>
        IN  IF p \in CanvasPos /\ InPixmap(src, p)
            THEN blend(src.px[p], dst.px[q]) ELSE dst.px[q]]]

\* Pixmap::draw_pixmap(x, y, src, PixmapPaint::default(), identity, None)
draw_pixmap(dst, x, y, src) ==
    [dst EXCEPT !.px = [q \in CanvasPos |->
        LET p == <<q[1] - x, q[2] - y>>
        IN  IF p \in CanvasPos /\ InPixmap(src, p)
            THEN blend(src.px[p], dst.px[q]) ELSE dst.px[q]]]

----------------------------------------------------------------------------
(* Scenes *)

\* observed positions of a scene, in render-region coordinates
ScenePos == {<<q[1] - 32, q[2] - 32>> : q \in CanvasPos}

NoTree == << >>

Layers == [ScenePos -> Palette]

\* a scene with an opaque and a partially transparent pixel in its view box
LayerMixed ==
    [p \in ScenePos |->
        IF p = <<0, 0>> THEN <<10, 200, 30, 255>>
        ELSE IF p = <<191, 191>> THEN <<64, 0, 100, 128>>
        ELSE Transparent]

\* resvg::render(tree, FitTo::Size(render_size), translate(tx, ty), target)
render(tr, tx, ty, target) ==
    [target EXCEPT !.px = [q \in CanvasPos |->
        LET p == <<q[1] - tx, q[2] - ty>>
        IN  IF p \in ScenePos THEN blend(tr[p], target.px[q])
            ELSE target.px[q]]]

----------------------------------------------------------------------------
(* Colour *)

Unit == 16 * 60                \* the channel value 1.0
Saturation == (3 * Unit) \div 4
Lightness == (3 * Unit) \div 4

Hues == {(k * 360) \div NumHues : k \in 0..(NumHues - 1)}

\* palette: Hsl -> Srgb
hsl_into_color(h, s, l) ==
    LET chroma == ((Unit - Abs(2 * l - Unit)) * s) \div Unit
        x      == (chroma * (60 - Abs((h % 120) - 60))) \div 60
        m      == l - chroma \div 2
        sector == h \div 60
        rgb    == CASE sector = 0 -> <<chroma, x, 0>>
                    [] sector = 1 -> <<x, chroma, 0>>
                    [] sector = 2 -> <<0, chroma, x>>
                    [] sector = 3 -> <<0, x, chroma>>
                    [] sector = 4 -> <<x, 0, chroma>>
                    [] OTHER      -> <<chroma, 0, x>>
    IN  <<rgb[1] + m, rgb[2] + m, rgb[3] + m>>

\* Color::from_rgba: None unless every channel is in [0, 1]
from_rgba_ok(col, a) ==
    /\ \A k \in 1..3 : col[k] >= 0 /\ col[k] <= Unit
    /\ a >= 0 /\ a <= Unit

\* the premultiplied 8-bit colour Pixmap::fill stores
color_u8(col, a) ==
    LET ch(v) == (((v * a) \div Unit) * 255 + Unit \div 2) \div Unit
    IN  <<ch(col[1]), ch(col[2]), ch(col[3]), (a * 255 + Unit \div 2) \div Unit>>

NoColor == << >>

----------------------------------------------------------------------------
(* Geometry *)

NoSize == <<u32(0), u32(0)>>

\* ScreenSize::new: None when a side is zero
ScreenSize_ok(w, h) == w # u32(0) /\ h # u32(0)

\* size - (margin * 2) in u32: a build with overflow checks panics on overflow
render_side_overflows(sz, m) ==
    \/ mul_overflows(u32(m), 2)
    \/ sub_overflows(u32(sz), wrapping_mul(u32(m), 2))

\* size - (margin * 2) in u32, wrapping
render_side(sz, m) == wrapping_sub(u32(sz), wrapping_mul(u32(m), 2))

----------------------------------------------------------------------------
(* Input directories *)

\* a directory entry: ok is FALSE when its record cannot be read during the
\* enumeration; kind is what the file holds
Dirent(ok, name, kind, layer) ==
    [ok |-> ok, name |-> name, kind |-> kind, layer |-> layer]

BatchDirents ==
    {Dirent(TRUE, n, k, NoTree) : n \in Names, k \in {"dir", "garbage"}}
    \cup {Dirent(ok, n, "svg", LayerMixed) : ok \in BOOLEAN, n \in Names}

\* directories of at most n entries with distinct names
Dirs(D, n) ==
    {d \in UNION {[1..k -> D] : k \in 0..n} :
        \A a, b \in 1..Len(d) : d[a].name = d[b].name => a = b}

NewFile == Dirent(TRUE, NameNew, "svg", LayerMixed)

Path(k) == dir[k].name

Diag(path, cause) == [path |-> path, cause |-> cause]

Terminal == {"exit0", "exit1", "panicked"}

----------------------------------------------------------------------------
(* Initial states *)

InitWith(d, m) ==
    /\ pc = "main"
    /\ margin = m
    /\ size = 256
    /\ dir = d
    /\ snapshot = << >>
    /\ enumerated = FALSE
    /\ inputs = << >>
    /\ i = 0
    /\ opath = NoPath
    /\ tree = NoTree
    /\ pixmap_size = NoSize
    /\ render_size = NoSize
    /\ pixmap = NoPixmap
    /\ bgpixmap = NoPixmap
    /\ c = NoColor
    /\ res = "ok"
    /\ outdir = {}
    /\ before = {}
    /\ stderr = << >>
    /\ passed = << >>
    /\ results = << >>

\* any input directory of at most MaxEntries entries
Init == \E d \in Dirs(BatchDirents, MaxEntries) : InitWith(d, 32)

\* one valid input holding any scene
InitPix == \E l \in Layers : InitWith(<<Dirent(TRUE, NameASvg, "svg", l)>>, 32)

\* one valid input; the margin constant drawn from 0..MaxMargin
InitGeom ==
    \E m \in 0..MaxMargin :
        InitWith(<<Dirent(TRUE, NameASvg, "svg", LayerMixed)>>, m)

----------------------------------------------------------------------------
(* main and svg2png *)

svg2png1_locals ==
    <<opath, tree, pixmap_size, render_size, pixmap, bgpixmap, c, res, before>>

\* main: canonicalize both paths
main ==
    /\ pc = "main"
    /\ \E ok \in BOOLEAN :
        IF ok
        THEN pc' = "read_dir" /\ stderr' = stderr
        ELSE /\ pc' = "exit1"
             /\ stderr' = Append(stderr, Diag(NoPath, "canonicalize"))
    /\ UNCHANGED <<margin, size, dir, snapshot, enumerated, inputs, i, outdir,
                   passed, results>>
    /\ UNCHANGED svg2png1_locals

\* the entries fs::read_dir yields as Ok, by position
collect(d) == SelectSeq([k \in 1..Len(d) |-> k], LAMBDA k : d[k].ok)

\* svg2png: fs::read_dir(input)? ... collect
read_dir ==
    /\ pc = "read_dir"
    /\ \E ok \in BOOLEAN :
        IF ok
        THEN /\ pc' = "loop"
             /\ snapshot' = dir
             /\ enumerated' = TRUE
             /\ inputs' = collect(dir)
             /\ i' = 1
             /\ stderr' = stderr
        ELSE /\ pc' = "exit1"
             /\ stderr' = Append(stderr, Diag(NoPath, "read_dir"))
             /\ UNCHANGED <<snapshot, enumerated, inputs, i>>
    /\ UNCHANGED <<margin, size, dir, outdir, passed, results>>
    /\ UNCHANGED svg2png1_locals

\* svg2png: the head of the for loop and the derivation of opath
loop ==
    /\ pc = "loop"
    /\ IF i > Len(inputs)
       THEN /\ pc' = "exit0"
            /\ UNCHANGED <<stderr, passed>>
            /\ UNCHANGED svg2png1_locals
       ELSE IF ~has_file_stem(Path(inputs[i]))
       THEN /\ pc' = "exit1"
            /\ stderr' = Append(stderr, Diag(NoPath, "no file stem"))
            /\ UNCHANGED passed
            /\ UNCHANGED svg2png1_locals
       ELSE IF ~into_string_ok(file_stem(Path(inputs[i])))
       THEN /\ pc' = "exit1"
            /\ stderr' = Append(stderr, Diag(NoPath, "bad os string"))
            /\ UNCHANGED passed
            /\ UNCHANGED svg2png1_locals
       ELSE /\ pc' = "read"
            /\ opath' = derive_opath(Path(inputs[i]))
            /\ passed' = Append(passed, inputs[i])
            /\ before' = outdir
            /\ res' = "ok"
            /\ tree' = NoTree
            /\ pixmap_size' = NoSize
            /\ render_size' = NoSize
            /\ pixmap' = NoPixmap
            /\ bgpixmap' = NoPixmap
            /\ c' = NoColor
            /\ stderr' = stderr
    /\ UNCHANGED <<margin, size, dir, snapshot, enumerated, inputs, i, outdir,
                   results>>

\* svg2png: the match on svg2png1's result
match ==
    /\ pc = "match"
    /\ stderr' = IF res = "ok" THEN stderr
                 ELSE Append(stderr, Diag(Path(inputs[i]), res))
    /\ results' = Append(results, res)
    /\ i' = i + 1
    /\ pc' = "loop"
    /\ UNCHANGED <<margin, size, dir, snapshot, enumerated, inputs, outdir,
                   passed>>
    /\ UNCHANGED svg2png1_locals

\* another process creates a file in the input directory
CreateFile ==
    /\ pc \notin Terminal
    /\ \A k \in 1..Len(dir) : dir[k].name # NameNew
    /\ dir' = Append(dir, NewFile)
    /\ UNCHANGED <<pc, margin, size, snapshot, enumerated, inputs, i, outdir,
                   stderr, passed, results>>
    /\ UNCHANGED svg2png1_locals

----------------------------------------------------------------------------
(* svg2png1 *)

driver == <<margin, size, dir, snapshot, enumerated, inputs, i, stderr, passed,
            results, opath, before>>

\* the file at path created or replaced
write(out, path, image) ==
    {f \in out : f.path # path} \cup {[path |-> path, image |-> image]}

\* return Err(cause) from svg2png1
fail(cause) == pc' = "match" /\ res' = cause

\* read with the output file created on entry
read_creating ==
    /\ pc = "read"
    /\ IF dir[inputs[i]].kind = "dir"
       THEN fail("read error")
       ELSE pc' = "parse" /\ res' = res
    /\ outdir' = write(outdir, opath, NoPixmap)
    /\ UNCHANGED <<tree, pixmap_size, render_size, pixmap, bgpixmap, c>>
    /\ UNCHANGED driver

\* std::fs::read(path)?
read ==
    /\ pc = "read"
    /\ IF dir[inputs[i]].kind = "dir"
       THEN fail("read error")
       ELSE pc' = "parse" /\ res' = res
    /\ UNCHANGED <<tree, pixmap_size, render_size, pixmap, bgpixmap, c, outdir>>
    /\ UNCHANGED driver

\* usvg::Tree::from_data(..)? and convert_text
parse ==
    /\ pc = "parse"
    /\ IF dir[inputs[i]].kind # "svg"
       THEN fail("parse error") /\ tree' = tree
       ELSE pc' = "geometry" /\ tree' = dir[inputs[i]].layer /\ res' = res
    /\ UNCHANGED <<pixmap_size, render_size, pixmap, bgpixmap, c, outdir>>
    /\ UNCHANGED driver

\* pixmap_size and render_size; checked is whether the build checks overflow
geometry ==
    /\ pc = "geometry"
    /\ \E checked \in BOOLEAN :
        LET side == render_side(size, margin)
        IN  IF ~ScreenSize_ok(u32(size), u32(size))
            THEN fail("screen size error")
                 /\ UNCHANGED <<pixmap_size, render_size>>
            ELSE IF render_side_overflows(size, margin) /\ checked
            THEN pc' = "panicked" /\ pixmap_size' = <<u32(size), u32(size)>>
                 /\ UNCHANGED <<render_size, res>>
            ELSE IF ~ScreenSize_ok(side, side)
            THEN fail("render size error")
                 /\ pixmap_size' = <<u32(size), u32(size)>>
                 /\ UNCHANGED render_size
            ELSE /\ pc' = "alloc"
                 /\ pixmap_size' = <<u32(size), u32(size)>>
                 /\ render_size' = <<side, side>>
                 /\ res' = res
    /\ UNCHANGED <<tree, pixmap, bgpixmap, c, outdir>>
    /\ UNCHANGED driver

\* the two Pixmap::new(..).unwrap()
alloc ==
    /\ pc = "alloc"
    /\ \E ok \in BOOLEAN :
        IF ok
        THEN /\ pc' = "color"
             /\ pixmap' = Pixmap_new(pixmap_size[1], pixmap_size[2])
             /\ bgpixmap' = Pixmap_new(pixmap_size[1], pixmap_size[2])
        ELSE pc' = "panicked" /\ UNCHANGED <<pixmap, bgpixmap>>
    /\ UNCHANGED <<tree, pixmap_size, render_size, c, res, outdir>>
    /\ UNCHANGED driver

\* the hue sample, the colour and the fill of bgpixmap
color ==
    /\ pc = "color"
    /\ \E h \in Hues :
        LET col == hsl_into_color(h, Saturation, Lightness)
        IN  IF ~from_rgba_ok(col, Unit)
            THEN fail("color create error") /\ UNCHANGED <<c, bgpixmap>>
            ELSE /\ pc' = "render"
                 /\ c' = color_u8(col, Unit)
                 /\ bgpixmap' = fill(bgpixmap, color_u8(col, Unit))
                 /\ res' = res
    /\ UNCHANGED <<tree, pixmap_size, render_size, pixmap, outdir>>
    /\ UNCHANGED driver

\* resvg::render(..).ok_or(..)?
rasterize ==
    /\ pc = "render"
    /\ \E ok \in BOOLEAN :
        IF ok
        THEN /\ pc' = "composite"
             /\ pixmap' = render(tree, margin, margin, pixmap)
             /\ res' = res
        ELSE fail("error rendering svg layer") /\ pixmap' = pixmap
    /\ UNCHANGED <<tree, pixmap_size, render_size, bgpixmap, c, outdir>>
    /\ UNCHANGED driver

\* bgpixmap.draw_pixmap(0, 0, pixmap, ..).ok_or(..)?
composite ==
    /\ pc = "composite"
    /\ \E ok \in BOOLEAN :
        IF ok
        THEN /\ pc' = "save"
             /\ bgpixmap' = draw_pixmap(bgpixmap, 0, 0, pixmap)
             /\ res' = res
        ELSE fail("error rendering svg layer onto background")
             /\ bgpixmap' = bgpixmap
    /\ UNCHANGED <<tree, pixmap_size, render_size, pixmap, c, outdir>>
    /\ UNCHANGED driver

\* bgpixmap.save_png(opath)?; Ok(())
save_png ==
    /\ pc = "save"
    /\ \E ok \in BOOLEAN :
        IF ok
        THEN outdir' = write(outdir, opath, bgpixmap) /\ res' = "ok"
        ELSE outdir' = outdir /\ res' = "write error"
    /\ pc' = "match"
    /\ UNCHANGED <<tree, pixmap_size, render_size, pixmap, bgpixmap, c>>
    /\ UNCHANGED driver

----------------------------------------------------------------------------
(* Specifications *)

Next ==
    \/ main
    \/ read_dir
    \/ loop
    \/ read
    \/ parse
    \/ geometry
    \/ alloc
    \/ color
    \/ rasterize
    \/ composite
    \/ save_png
    \/ match
    \/ CreateFile

\* the batch over any small input directory
Spec == Init /\ [][Next]_vars

\* one valid input, any scene
SpecPix == InitPix /\ [][Next]_vars

\* one valid input, any margin constant
SpecGeom == InitGeom /\ [][Next]_vars

----------------------------------------------------------------------------
(* Properties *)

\* the diagnostics that name a path
NumDiags(name) == Cardinality({k \in 1..Len(stderr) : stderr[k].path = name})

\* the j-th entry passed to svg2png1 returned Ok
Succeeded(j) == j <= Len(results) /\ results[j] = "ok"

\* the k-th entry of the enumerated directory had its output written
Written(k) == \E j \in 1..Len(results) : passed[j] = k /\ results[j] = "ok"

\* a canvas position inside the render region placed at (margin, margin)
InRegion(q) ==
    /\ q[1] >= margin /\ q[1] < margin + u32_value(render_size[1])
    /\ q[2] >= margin /\ q[2] < margin + u32_value(render_size[2])

\* a scene position inside the render region
InView(p) == InRegion(<<p[1] + margin, p[2] + margin>>)

Stages == {"read", "parse", "geometry", "alloc", "color", "render",
           "composite", "save"}

\* C1: when the run has ended, every entry whose pipeline did not return Ok
\* (a stage failed) has exactly one diagnostic naming its path, and every
\* entry after it was passed to the pipeline: the batch did not abort.
C1_StageFailureReportedBatchContinues ==
    pc \in Terminal =>
        \A j \in 1..Len(passed) :
            ~Succeeded(j) =>
                /\ NumDiags(Path(passed[j])) = 1
                /\ Len(passed) = Len(inputs)

\* C2: the run ends with an error only when canonicalizing or enumerating
\* failed; an entry whose stem is not valid Unicode is reported and the run
\* ends with exit code zero.
C2_OnlySetupErrorsFailTheRun ==
    /\ pc = "exit1" => ~enumerated
    /\ pc \in Terminal /\ enumerated =>
          \A j \in 1..Len(inputs) :
              ~into_string_ok(file_stem(Path(inputs[j]))) =>
                  NumDiags(Path(inputs[j])) = 1 /\ pc = "exit0"

\* C3: when the run has ended, the output directory (empty at the start)
\* holds as many files as entries whose pipeline succeeded.
C3_OneOutputPerSuccess ==
    pc \in Terminal =>
        Cardinality(outdir) = Cardinality({j \in 1..Len(results) : Succeeded(j)})

\* C4: after compositing, every canvas pixel outside the render region
\* equals the background colour.
C4_OutsideRegionIsBackground ==
    pc = "save" => \A q \in CanvasPos : ~InRegion(q) => bgpixmap.px[q] = c

\* C5: after compositing, at every position of the render region, an opaque
\* pixel of the vector layer is the canvas pixel at the corresponding
\* coordinate, and a transparent one leaves the background colour there.
C5_SourceOverInsideRegion ==
    pc = "save" =>
        \A p \in ScenePos :
            InView(p) =>
                LET q == <<p[1] + margin, p[2] + margin>>
                IN  /\ tree[p][4] = 255 => bgpixmap.px[q] = tree[p]
                    /\ tree[p][4] = 0 => bgpixmap.px[q] = c

\* compositing was done for a layer with an opaque and a transparent pixel
\* inside the render region
C5_Witness ==
    /\ pc = "save"
    /\ \E p1, p2 \in ScenePos :
        InView(p1) /\ InView(p2) /\ tree[p1][4] = 255 /\ tree[p2][4] = 0

\* C6: every image in the output directory is 256x256 and every pixel of it
\* has full alpha.
C6_OutputIs256Opaque ==
    \A f \in outdir :
        /\ f.image.w = 256 /\ f.image.h = 256
        /\ \A q \in CanvasPos : f.image.px[q][4] = 255

\* an output was written for a layer with a partially transparent pixel
C6_Witness ==
    /\ pc = "match" /\ res = "ok"
    /\ \E p \in ScenePos : tree[p][4] \notin {0, 255}
    /\ \E f \in outdir : f.path = opath

\* C7: with margin 32 the geometry step yields 256x256 and 192x192; with a
\* margin of 128 or more it fails with the render size error and yields no
\* render size.
C7_GeometryRejectsLargeMargin ==
    /\ margin = 32 /\ pc = "alloc" =>
          /\ pixmap_size = <<u32(256), u32(256)>>
          /\ render_size = <<u32(192), u32(192)>>
    /\ margin >= 128 =>
          /\ pc \notin {"alloc", "color", "render", "composite", "save", "panicked"}
          /\ render_size = NoSize
          /\ pc = "match" => res = "render size error"

\* C8: the entries passed to the pipeline are entries of the one enumeration,
\* in enumeration order, each once; when the run has ended every enumerated
\* entry has been passed.
C8_SinglePassOverSnapshot ==
    /\ \A j \in 1..Len(passed) : passed[j] <= Len(snapshot)
    /\ Len(passed) <= Len(inputs)
    /\ passed = SubSeq(inputs, 1, Len(passed))
    /\ pc \in Terminal /\ enumerated => passed = inputs

\* C9: an entry whose pipeline is under way, has failed before the final
\* write or has panicked has left the output directory as it was when the
\* pipeline was entered: no file created, none modified.
C9_FailureBeforeWriteLeavesOutput ==
    /\ pc \in Stages \cup {"panicked"} => outdir = before
    /\ pc = "match" /\ res \notin {"ok", "write error"} => outdir = before

\* an entry failed to parse while the output directory already held a file
\* at its output path
C9_Witness ==
    /\ pc = "match" /\ res = "parse error"
    /\ \E f \in outdir : f.path = opath

\* C10: when the run has completed, every entry of the enumerated directory
\* either had its output written or has exactly one diagnostic naming it,
\* and not both.
C10_NoEntryDroppedSilently ==
    pc = "exit0" =>
        \A k \in 1..Len(snapshot) :
            Written(k) # (NumDiags(snapshot[k].name) = 1)

====
